---- MODULE Spec2Model ----
(***************************************************************************)
(* Model of Backend/main.py: a FastAPI relay with four endpoints           *)
(* (/auth/token, /config, /analyze, /narrative) that forwards text to one  *)
(* of two model providers.                                                 *)
(*                                                                         *)
(* Scheduling.  The handlers are `async def` coroutines on one event loop. *)
(* The only suspension point of /analyze and /narrative is                 *)
(* `await request.json()`; the provider calls (generate_content,           *)
(* messages.create) are synchronous, so from the moment the body is bound  *)
(* to the moment the handler returns no other handler runs.  `running`     *)
(* names the connection whose handler holds the event loop, and `frame`,   *)
(* `calls` and `responses` hold that handler's locals, the outbound calls  *)
(* it has issued and the responses it has produced (they keep the values   *)
(* of the last handler until the next one starts).                         *)
(***************************************************************************)
EXTENDS Integers, Sequences, FiniteSets, TLC

\* Number of client connections that can be open at the same time.
NumRequests == 2

Conns == 1..NumRequests

----------------------------------------------------------------------------
(* Python values *)

PyNone == [t |-> "None"]
PyStr(s) == [t |-> "str", s |-> s]
\* marks a key that the JSON object of the request does not have
Absent == [t |-> "absent"]

\* bool(v) for None and str
Truthy(v) == v.t = "str" /\ v.s # ""

\* format(v, "") as done by an f-string replacement field
Format(v) == IF v.t = "str" THEN v.s ELSE "None"

\* dict.get(key, default)
BodyGet(body, key, default) == IF body[key] = Absent THEN default ELSE body[key]

\* os.getenv(name, default): the value of the variable or the default
Getenv(value, default) == IF value = PyNone THEN default ELSE value

----------------------------------------------------------------------------
(* Exceptions and responses *)

HTTPException(status_code, detail) ==
    [cls |-> "HTTPException", status_code |-> status_code, detail |-> detail]

\* any other exception class, with its message
Exc(cls, msg) == [cls |-> cls, msg |-> msg]

NoExc == [cls |-> "none"]

\* str(e): starlette's HTTPException prints "<status>: <detail>", the others
\* print their message
Str(e) ==
    IF e.cls = "HTTPException"
    THEN ToString(e.status_code) \o ": " \o e.detail
    ELSE e.msg

\* the response FastAPI sends for an HTTPException(status_code=500, detail=...)
Failure(detail) == [status |-> 500, detail |-> detail]

\* the response FastAPI sends for a returned {"text": ...}
Success(text) == [status |-> 200, text |-> text]

GenericDetail(e) == "Internal Server Error"

\* except Exception as e: raise HTTPException(status_code=500, detail=str(e))
ExcDetail(e) == Str(e)

\* the outcome of a try block: either it returned a value or it raised
Returned(value) == [raised |-> NoExc, response |-> Success(value)]
Raised(e) == [raised |-> e, response |-> Failure(ExcDetail(e))]

----------------------------------------------------------------------------
(* Request bodies, provider replies, configuration *)

\* values a JSON field of a request can take: missing, null, or a string
Field(strings) == {Absent, PyNone} \cup {PyStr(s) : s \in strings}

ModelTypeNames == {"gemini", "claude", "gpt"}

\* JSON objects posted to /analyze
AnalyzeBodies ==
    [model_type : Field(ModelTypeNames),
     system_prompt : {Absent, PyStr("You are an auditor.")},
     chat_log : {Absent, PyStr("User: hi")}]

\* JSON objects posted to /narrative
NarrativeBodies ==
    [model_type : Field(ModelTypeNames),
     prompt : {Absent, PyStr("Write a haiku")}]

NoBody == [t |-> "nobody"]

\* What a provider call can do: raise, or return a response object.  The
\* text of a response is a string (possibly empty) or cannot be extracted
\* (Missing: no candidate part / no content block); prompt_feedback is
\* provider metadata that is either empty or names a block reason.
Missing == [t |-> "missing"]

ProviderReplies ==
    {[k |-> "raise", exc |-> Exc("Exception", m)] : m \in {"connection reset"}}
    \cup
    [k : {"response"},
     text : {PyStr("{\"finding\":\"none\"}"), PyStr(""), Missing},
     prompt_feedback : {PyNone, PyStr("block_reason: SAFETY")}]

NoReply == [k |-> "none"]

\* the process environment read at import time
EnvKeys(name) == {PyNone, PyStr(""), PyStr(name)}

VARIABLES
    GEMINI_API_KEY,       \* module global, line 29
    ANTHROPIC_API_KEY,    \* module global, line 30
    PROJECT_ID,           \* module global, line 26
    BUCKET_NAME,          \* module global, line 27
    credentials_exist,    \* os.path.exists(CREDENTIALS_PATH)
    genai_api_key,        \* the key held by the genai library, set by genai.configure
    pc,                   \* per connection: "idle", "awaiting", "called", "done"
    running,              \* the connection whose handler holds the event loop, or 0
    frame,                \* locals of the handler that runs (or ran last)
    calls,                \* outbound provider calls issued by that handler
    responses             \* responses produced for that request

config == <<GEMINI_API_KEY, ANTHROPIC_API_KEY, PROJECT_ID, BUCKET_NAME, credentials_exist>>
vars == <<GEMINI_API_KEY, ANTHROPIC_API_KEY, PROJECT_ID, BUCKET_NAME, credentials_exist,
          genai_api_key, pc, running, frame, calls, responses>>

CREDENTIALS_PATH == "/Users/ryanthomson/Github/VEO-Prompt-Machine-V3/veopromptmachine-2a215201031c.json"

Unconfigured == [t |-> "unconfigured"]

NoFrame ==
    [id |-> 0, op |-> "none", body |-> NoBody, model_type |-> PyNone,
     provider |-> "none", key_checked |-> "none", raised |-> NoExc, reply |-> NoReply]

Init ==
    /\ GEMINI_API_KEY \in EnvKeys("gemini-key")
    /\ ANTHROPIC_API_KEY \in EnvKeys("anthropic-key")
    /\ PROJECT_ID \in {Getenv(v, PyStr("veopromptmachine")) : v \in {PyNone, PyStr("my-project")}}
    /\ BUCKET_NAME \in {Getenv(v, PyStr("veo-prompt-machine")) : v \in {PyNone}}
    /\ credentials_exist \in BOOLEAN
    /\ genai_api_key = Unconfigured
    /\ pc = [r \in Conns |-> "idle"]
    /\ running = 0
    /\ frame = NoFrame
    /\ calls = <<>>
    /\ responses = <<>>

----------------------------------------------------------------------------
(* Routing and credentials *)

ModelTypeOfDefaultSecondary(body) == BodyGet(body, "model_type", PyStr("claude"))

\* body.get('model_type', 'gemini')
ModelTypeOf(body) == BodyGet(body, "model_type", PyStr("gemini"))

RouteUnknownToPrimary(model_type) == IF model_type = PyStr("claude") THEN "claude" ELSE "gemini"

\* if model_type == 'gemini': ... else: ...
Route(model_type) == IF model_type = PyStr("gemini") THEN "gemini" ELSE "claude"

\* the module global each branch tests before it builds its client
RequiredKeyName(provider) ==
    IF provider = "gemini" THEN "GEMINI_API_KEY" ELSE "ANTHROPIC_API_KEY"

KeyNamedAllRequired(name) ==
    IF Truthy(GEMINI_API_KEY) /\ Truthy(ANTHROPIC_API_KEY)
    THEN (IF name = "GEMINI_API_KEY" THEN GEMINI_API_KEY ELSE ANTHROPIC_API_KEY)
    ELSE PyNone

\* the value of a module global
KeyNamed(name) == IF name = "GEMINI_API_KEY" THEN GEMINI_API_KEY ELSE ANTHROPIC_API_KEY

KeyMissingNeverChecked(key) == FALSE

\* if not <KEY>: raise HTTPException(...)
KeyMissing(key) == ~Truthy(key)

KeyMissingError(provider) ==
    IF provider = "gemini"
    THEN HTTPException(500, "Gemini key missing")
    ELSE HTTPException(500, "Claude key missing")

GenaiConfigureOtherKey(api_key) == ANTHROPIC_API_KEY

\* genai.configure(api_key=...): the value the library keeps process-wide
GenaiConfigure(api_key) == api_key

----------------------------------------------------------------------------
(* Outbound calls *)

\* safety_settings of the audit call to the primary provider
SafetySettings ==
    {[category |-> c, threshold |-> "BLOCK_NONE"] :
        c \in {"HARM_CATEGORY_HARASSMENT", "HARM_CATEGORY_HATE_SPEECH",
               "HARM_CATEGORY_SEXUALLY_EXPLICIT", "HARM_CATEGORY_DANGEROUS_CONTENT"}}

\* f"AUDIT TARGET LOG:\n{chat_log}"
AuditContent(chat_log) == PyStr("AUDIT TARGET LOG:\n" \o Format(chat_log))

NarrativeContentFramed(prompt) == AuditContent(prompt)

\* the narrative handlers pass `prompt` itself
NarrativeContent(prompt) == prompt

\* model.generate_content(contents=..., generation_config=..., safety_settings=...,
\* system_instruction=...) on a model built after genai.configure: the call is
\* made with the key the genai library holds at that moment
GeminiAuditCall(library_key, system_prompt, chat_log) ==
    [provider |-> "gemini", model |-> "gemini-3-flash-preview", api_key |-> library_key,
     contents |-> AuditContent(chat_log),
     generation_config |-> [response_mime_type |-> "application/json"],
     safety_settings |-> SafetySettings,
     system_instruction |-> system_prompt]

\* anthropic.Anthropic(api_key=ANTHROPIC_API_KEY).messages.create(model=..., max_tokens=...,
\* system=..., messages=[...])
ClaudeAuditCall(system_prompt, chat_log) ==
    [provider |-> "claude", model |-> "claude-3-5-sonnet-20241022",
     api_key |-> ANTHROPIC_API_KEY, max_tokens |-> 4096,
     system |-> system_prompt,
     messages |-> <<[role |-> "user", content |-> AuditContent(chat_log)]>>]

\* model.generate_content(prompt)
GeminiNarrativeCall(library_key, prompt) ==
    [provider |-> "gemini", model |-> "gemini-3-flash-preview", api_key |-> library_key,
     contents |-> NarrativeContent(prompt)]

\* client.messages.create(model=..., max_tokens=..., messages=[...])
ClaudeNarrativeCall(prompt) ==
    [provider |-> "claude", model |-> "claude-3-5-sonnet-20241022",
     api_key |-> ANTHROPIC_API_KEY, max_tokens |-> 4096,
     messages |-> <<[role |-> "user", content |-> NarrativeContent(prompt)]>>]

\* the user content a call carries
Content(call) == IF call.provider = "gemini" THEN call.contents ELSE call.messages[1].content

\* whether a call carries a system instruction argument
HasSystem(call) == "system" \in DOMAIN call \/ "system_instruction" \in DOMAIN call

----------------------------------------------------------------------------
(* What the handlers do with the provider's reply *)

\* response.text of the primary provider raises when the response holds no part
GeminiTextError == Exc("ValueError", "response.text requires the response to contain a valid Part")

\* response.content[0] of the secondary provider raises when content is empty
ClaudeTextError == Exc("IndexError", "list index out of range")

\* lines 81-86 and 96, inside try ... except Exception
AnalyzeResult(provider, reply) ==
    IF reply.k = "raise" THEN Raised(reply.exc)
    ELSE IF provider = "gemini" THEN
        IF reply.text = Missing THEN Raised(GeminiTextError)
        ELSE IF ~Truthy(reply.text) THEN
            IF Truthy(reply.prompt_feedback)
            THEN Raised(HTTPException(500, "Gemini blocked response: " \o Format(reply.prompt_feedback)))
            ELSE Raised(HTTPException(500, "Gemini returned empty response"))
        ELSE Returned(reply.text)
    ELSE
        IF reply.text = Missing THEN Raised(ClaudeTextError)
        ELSE Returned(reply.text)

\* lines 112 and 121, inside try ... except Exception
NarrativeResult(provider, reply) ==
    IF reply.k = "raise" THEN Raised(reply.exc)
    ELSE IF provider = "gemini" THEN
        IF reply.text = Missing THEN Raised(GeminiTextError)
        ELSE Returned(reply.text)
    ELSE
        IF reply.text = Missing THEN Raised(ClaudeTextError)
        ELSE Returned(reply.text)

----------------------------------------------------------------------------
(* Actions *)

\* a client connects and sends a request; the server reads it once the
\* event loop is free
Arrive(r) ==
    /\ pc[r] = "idle"
    /\ pc' = [pc EXCEPT ![r] = "awaiting"]
    /\ UNCHANGED <<config, genai_api_key, running, frame, calls, responses>>

\* the handler raised before any provider call: the except clause answers
FailEarly(r, f, e) ==
    /\ frame' = [f EXCEPT !.raised = e]
    /\ calls' = <<>>
    /\ responses' = <<Raised(e).response>>
    /\ pc' = [pc EXCEPT ![r] = "done"]
    /\ running' = 0

\* the handler entered the provider call and blocks the event loop in it
IssueCall(r, f, call) ==
    /\ frame' = f
    /\ calls' = <<call>>
    /\ responses' = <<>>
    /\ pc' = [pc EXCEPT ![r] = "called"]
    /\ running' = r

\* the locals bound at the top of analyze_pathology / generate_narrative
Locals(r, op, body) ==
    [id |-> r, op |-> op, body |-> body, model_type |-> ModelTypeOf(body),
     provider |-> Route(ModelTypeOf(body)),
     key_checked |-> RequiredKeyName(Route(ModelTypeOf(body))),
     raised |-> NoExc, reply |-> NoReply]

\* POST /analyze, from the bound body to the provider call
Analyze(r, body) ==
    LET f == Locals(r, "analyze", body)
        system_prompt == BodyGet(body, "system_prompt", PyNone)
        chat_log == BodyGet(body, "chat_log", PyNone)
    IN  /\ running = 0
        /\ pc[r] = "awaiting"
        /\ UNCHANGED config
        /\ IF f.provider = "gemini"
           THEN IF KeyMissing(KeyNamed(f.key_checked))
                THEN /\ FailEarly(r, f, KeyMissingError("gemini"))
                     /\ UNCHANGED genai_api_key
                ELSE /\ genai_api_key' = GenaiConfigure(GEMINI_API_KEY)
                     /\ IssueCall(r, f, GeminiAuditCall(genai_api_key', system_prompt, chat_log))
           ELSE IF KeyMissing(KeyNamed(f.key_checked))
                THEN /\ FailEarly(r, f, KeyMissingError("claude"))
                     /\ UNCHANGED genai_api_key
                ELSE /\ IssueCall(r, f, ClaudeAuditCall(system_prompt, chat_log))
                     /\ UNCHANGED genai_api_key

\* POST /narrative, from the bound body to the provider call
Narrative(r, body) ==
    LET f == Locals(r, "narrative", body)
        prompt == BodyGet(body, "prompt", PyNone)
    IN  /\ running = 0
        /\ pc[r] = "awaiting"
        /\ UNCHANGED config
        /\ IF f.provider = "gemini"
           THEN IF KeyMissing(KeyNamed(f.key_checked))
                THEN /\ FailEarly(r, f, KeyMissingError("gemini"))
                     /\ UNCHANGED genai_api_key
                ELSE /\ genai_api_key' = GenaiConfigure(GEMINI_API_KEY)
                     /\ IssueCall(r, f, GeminiNarrativeCall(genai_api_key', prompt))
           ELSE IF KeyMissing(KeyNamed(f.key_checked))
                THEN /\ FailEarly(r, f, KeyMissingError("claude"))
                     /\ UNCHANGED genai_api_key
                ELSE /\ IssueCall(r, f, ClaudeNarrativeCall(prompt))
                     /\ UNCHANGED genai_api_key

\* the handler leaves the provider call and returns or raises its response
Complete(r, reply, outcome) ==
    /\ frame' = [frame EXCEPT !.raised = outcome.raised, !.reply = reply]
    /\ responses' = Append(responses, outcome.response)
    /\ pc' = [pc EXCEPT ![r] = "done"]
    /\ running' = 0
    /\ UNCHANGED <<config, genai_api_key, calls>>

AnalyzeReturnRetry(r, reply) ==
    /\ pc[r] = "called"
    /\ frame.op = "analyze"
    /\ IF reply.k = "raise" /\ Len(calls) < 2
       THEN /\ calls' = Append(calls, calls[1])
            /\ UNCHANGED <<config, genai_api_key, frame, responses, pc, running>>
       ELSE Complete(r, reply, AnalyzeResult(frame.provider, reply))

\* POST /analyze, from the provider's reply to the response
AnalyzeReturn(r, reply) ==
    /\ pc[r] = "called"
    /\ frame.op = "analyze"
    /\ Complete(r, reply, AnalyzeResult(frame.provider, reply))

\* POST /narrative, from the provider's reply to the response
NarrativeReturn(r, reply) ==
    /\ pc[r] = "called"
    /\ frame.op = "narrative"
    /\ Complete(r, reply, NarrativeResult(frame.provider, reply))

\* GET /config
GetConfig(r) ==
    /\ running = 0
    /\ pc[r] = "awaiting"
    /\ frame' = [NoFrame EXCEPT !.id = r, !.op = "config"]
    /\ calls' = <<>>
    /\ responses' = <<[status |-> 200, project_id |-> PROJECT_ID, bucket_name |-> BUCKET_NAME]>>
    /\ pc' = [pc EXCEPT ![r] = "done"]
    /\ UNCHANGED <<config, genai_api_key, running>>

\* what building and refreshing the service-account credentials can do
TokenResults ==
    {[k |-> "raise", exc |-> Exc("Exception", "refresh failed")],
     [k |-> "token", access_token |-> PyStr("ya29.token")]}

\* GET /auth/token
GetToken(r, result) ==
    /\ running = 0
    /\ pc[r] = "awaiting"
    /\ frame' = [NoFrame EXCEPT !.id = r, !.op = "token",
                 !.raised = IF ~credentials_exist
                            THEN HTTPException(500, "Credentials file not found at " \o CREDENTIALS_PATH)
                            ELSE IF result.k = "raise" THEN result.exc ELSE NoExc]
    /\ calls' = <<>>
    /\ responses' = <<IF frame'.raised # NoExc
                      THEN Failure(ExcDetail(frame'.raised))
                      ELSE [status |-> 200, access_token |-> result.access_token]>>
    /\ pc' = [pc EXCEPT ![r] = "done"]
    /\ UNCHANGED <<config, genai_api_key, running>>

\* the response has been sent: the connection is free again and the
\* handler's frame is gone
Close(r) ==
    /\ pc[r] = "done"
    /\ pc' = [pc EXCEPT ![r] = "idle"]
    /\ IF frame.id = r
       THEN frame' = NoFrame /\ calls' = <<>> /\ responses' = <<>>
       ELSE UNCHANGED <<frame, calls, responses>>
    /\ UNCHANGED <<config, genai_api_key, running>>

Next ==
    \E r \in Conns :
        \/ Arrive(r)
        \/ \E body \in AnalyzeBodies : Analyze(r, body)
        \/ \E body \in NarrativeBodies : Narrative(r, body)
        \/ \E reply \in ProviderReplies : AnalyzeReturn(r, reply)
        \/ \E reply \in ProviderReplies : NarrativeReturn(r, reply)
        \/ GetConfig(r)
        \/ \E result \in TokenResults : GetToken(r, result)
        \/ Close(r)

Spec == Init /\ [][Next]_vars

----------------------------------------------------------------------------
(* Properties *)

\* the handler in `frame` is an audit or narrative handler
Relayed == frame.op \in {"analyze", "narrative"}

\* its request has been answered
Answered == frame.id # 0 /\ pc[frame.id] = "done"

\* the startup credential of a provider
ProviderKey(provider) == IF provider = "gemini" THEN GEMINI_API_KEY ELSE ANTHROPIC_API_KEY

ConfigurationErrors ==
    {HTTPException(500, "Gemini key missing"), HTTPException(500, "Claude key missing")}

\* C1: when the key of the provider a request is routed to is absent (or
\* empty), the request fails with the configuration error of that provider
\* and no outbound call has been made for it.
C1_MissingKeyFailsBeforeAnyCall ==
    (Relayed /\ ProviderKey(frame.provider) \in {PyNone, PyStr("")}) =>
        /\ calls = <<>>
        /\ Answered
        /\ frame.raised \in ConfigurationErrors
        /\ Len(responses) = 1
        /\ responses[1].status = 500

C1_Witness ==
    /\ frame.op = "analyze"
    /\ frame.provider = "claude"
    /\ ANTHROPIC_API_KEY = PyNone
    /\ Truthy(GEMINI_API_KEY)
    /\ Answered
    /\ responses[1].status = 500

\* C2: a provider reply whose text is empty or missing makes the request
\* fail, and no success response carries an empty text.
C2_EmptyTextIsFailure ==
    (Relayed /\ Answered) =>
        /\ (frame.reply.k = "response" /\ ~Truthy(frame.reply.text))
               => responses[1].status = 500
        /\ responses[1].status = 200 => Truthy(responses[1].text)

\* C3: a body without model_type is routed to the primary provider: only
\* the primary key is tested and only the primary provider is called.
C3_MissingModelTypeRoutesToPrimary ==
    (Relayed /\ frame.body.model_type = Absent) =>
        /\ frame.provider = "gemini"
        /\ frame.key_checked = "GEMINI_API_KEY"
        /\ \A i \in 1..Len(calls) : calls[i].provider = "gemini"
        /\ Truthy(GEMINI_API_KEY) => Len(calls) = 1
        /\ frame.raised # HTTPException(500, "Claude key missing")

C3_Witness ==
    /\ Relayed
    /\ frame.body.model_type = Absent
    /\ ANTHROPIC_API_KEY = PyNone
    /\ Len(calls) = 1
    /\ calls[1].provider = "gemini"
    /\ Answered
    /\ responses[1].status = 200

\* C4: a body whose model_type is present and differs from "gemini" (another
\* name, an unknown name, null) is routed to the secondary provider and is
\* never refused for its model_type.
C4_OtherModelTypeRoutesToSecondary ==
    (Relayed /\ frame.body.model_type \notin {Absent, PyStr("gemini")}) =>
        /\ frame.provider = "claude"
        /\ frame.key_checked = "ANTHROPIC_API_KEY"
        /\ \A i \in 1..Len(calls) : calls[i].provider = "claude"
        /\ Truthy(ANTHROPIC_API_KEY) => Len(calls) = 1
        /\ calls = <<>> => frame.raised = HTTPException(500, "Claude key missing")

C4_Witness ==
    /\ Relayed
    /\ frame.body.model_type \in {PyNone, PyStr("gpt")}
    /\ GEMINI_API_KEY = PyNone
    /\ Len(calls) = 1
    /\ calls[1].provider = "claude"
    /\ Answered
    /\ responses[1].status = 200

\* C5: the content of every audit call is the literal "AUDIT TARGET LOG:\n"
\* followed by the chat_log of the request, and nothing else.
C5_AuditContentIsPrefixPlusChatLog ==
    (frame.op = "analyze" /\ calls # <<>>) =>
        /\ frame.body.chat_log.t = "str"
        /\ \A i \in 1..Len(calls) :
               Content(calls[i]) = PyStr("AUDIT TARGET LOG:\n" \o frame.body.chat_log.s)

\* C6: the content of every narrative call is the prompt of the request as
\* it came, and the call carries no system instruction.
C6_NarrativeContentIsRawPrompt ==
    (frame.op = "narrative" /\ calls # <<>>) =>
        \A i \in 1..Len(calls) :
            /\ Content(calls[i]) =
                   (IF frame.body.prompt = Absent THEN PyNone ELSE frame.body.prompt)
            /\ ~HasSystem(calls[i])

C6_Witness ==
    /\ frame.op = "narrative"
    /\ frame.body.prompt = PyStr("Write a haiku")
    /\ Len(calls) = 1
    /\ calls[1].provider = "claude"
    /\ Content(calls[1]) = PyStr("Write a haiku")

\* C7: an exception raised by the provider call (or while reading its
\* response) ends the request with exactly one 500 response whose detail is
\* the exception's message; it is never answered with a success.
C7_ProviderExceptionReported ==
    (Relayed /\ Answered) =>
        /\ frame.reply.k = "raise" => frame.raised = frame.reply.exc
        /\ frame.raised.cls \notin {"none", "HTTPException"}
               => responses = <<[status |-> 500, detail |-> frame.raised.msg]>>

C7_Witness ==
    /\ Relayed
    /\ Answered
    /\ frame.reply.k = "raise"
    /\ responses = <<[status |-> 500, detail |-> "connection reset"]>>

\* C8: a request whose own provider's key is set does not fail for a missing
\* key, whatever the other provider's key is, and /config answers 200 with
\* the project id and bucket name whatever keys or credential file are there.
C8_MissingValueFailsOnlyItsOperation ==
    /\ (Relayed /\ Truthy(ProviderKey(frame.provider))) =>
           /\ frame.raised \notin ConfigurationErrors
           /\ Len(calls) = 1
    /\ frame.op = "config" =>
           responses = <<[status |-> 200, project_id |-> PROJECT_ID,
                          bucket_name |-> BUCKET_NAME]>>

C8_Witness ==
    /\ Relayed
    /\ frame.provider = "gemini"
    /\ ANTHROPIC_API_KEY = PyNone
    /\ ~credentials_exist
    /\ Answered
    /\ responses[1].status = 200

\* C9: a request makes at most one outbound call and gets exactly one
\* response; the step that follows the provider call ends the request
\* without another call.
C9_OneCallOneResponse ==
    /\ [](/\ Len(calls) <= 1
          /\ Len(responses) <= 1
          /\ \A r \in Conns :
                 /\ (pc[r] = "called") => (frame.id = r /\ Len(calls) = 1 /\ responses = <<>>)
                 /\ (pc[r] = "done" /\ frame.id = r) => Len(responses) = 1)
    /\ [][\A r \in Conns :
              pc[r] = "called" =>
                  \/ /\ pc'[r] = "called"
                     /\ UNCHANGED <<frame, calls, responses>>
                  \/ /\ pc'[r] = "done"
                     /\ calls' = calls
                     /\ Len(responses') = 1]_vars

C9_Witness ==
    /\ Relayed
    /\ Answered
    /\ frame.reply.k = "raise"
    /\ Len(calls) = 1
    /\ Len(responses) = 1

SoloResponse(op, body, reply) ==
    LET provider == IF BodyGet(body, "model_type", PyStr("gemini")) = PyStr("gemini")
                    THEN "gemini" ELSE "claude"
    IN  IF ~Truthy(ProviderKey(provider))
        THEN Failure("500: " \o (IF provider = "gemini" THEN "Gemini" ELSE "Claude") \o " key missing")
        ELSE IF op = "analyze" THEN AnalyzeResult(provider, reply).response
             ELSE NarrativeResult(provider, reply).response

====
